---- MODULE Spec2Model ----
(***************************************************************************)
(* Gas.zip deposit calldata decoder (src/src/gaszip-decode.ts).            *)
(*                                                                         *)
(* A string is a sequence of one-character strings, a Uint8Array is a      *)
(* sequence of integers in 0..255.  JavaScript offsets are 0-based, the    *)
(* sequences here are 1-based: byte `bytes[o]` of the source is            *)
(* `bytes[o + 1]` here.  An optional value is a sequence of length at most *)
(* one: None is `undefined`, Some(v) is the value v.                       *)
(***************************************************************************)
EXTENDS Integers, Sequences, FiniteSets, TLC

\* Longest string of arbitrary characters given to the decoder.
MaxChars == 4
\* Longest body (bytes after the prefix byte) of a generated payload.
MaxBody == 37
\* Number of trailing body bytes that vary freely in a generated payload.
MaxFree == 4
\* Most transactions one run of the fetch loop receives.
MaxTxs == 3
\* Most transactions in one response of the stream.
MaxPage == 2
\* Largest --limit given to the fetch loop.
MaxLimit == 2

None == <<>>
Some(v) == <<v>>

\* A call either returns a value or throws an Error with a message.
Return(v) == [threw |-> FALSE, error |-> "", value |-> v]
Throw(msg) == [threw |-> TRUE, error |-> msg, value |-> None]

\* The registry literal.  nativeId is kept as its decimal digits: several
\* entries exceed 32 bits.  'B² Network' is written "B^2 Network".
GASZIP_CHAINS ==
  110 :> [name |-> "Abstract", nativeId |-> "2741"] @@
  493 :> [name |-> "Adventure Layer", nativeId |-> "9988"] @@
  261 :> [name |-> "AILayer", nativeId |-> "2649"] @@
  297 :> [name |-> "Aleph Zero EVM", nativeId |-> "41455"] @@
  233 :> [name |-> "AlienX", nativeId |-> "10241024"] @@
  128 :> [name |-> "Ancient8", nativeId |-> "888888888"] @@
  445 :> [name |-> "Animechain", nativeId |-> "69000"] @@
  296 :> [name |-> "ApeChain", nativeId |-> "33139"] @@
  401 :> [name |-> "AppChain", nativeId |-> "466"] @@
  348 :> [name |-> "Aptos", nativeId |-> "1000011"] @@
  53 :> [name |-> "Arbitrum Nova", nativeId |-> "42170"] @@
  57 :> [name |-> "Arbitrum One", nativeId |-> "42161"] @@
  40 :> [name |-> "Astar", nativeId |-> "592"] @@
  62 :> [name |-> "Aurora", nativeId |-> "1313161554"] @@
  15 :> [name |-> "Avalanche", nativeId |-> "43114"] @@
  278 :> [name |-> "B3", nativeId |-> "8333"] @@
  292 :> [name |-> "Bahamut", nativeId |-> "5165"] @@
  54 :> [name |-> "Base Mainnet", nativeId |-> "8453"] @@
  479 :> [name |-> "Battle for Blockchain", nativeId |-> "3920262608331171"] @@
  24 :> [name |-> "Beam", nativeId |-> "4337"] @@
  143 :> [name |-> "Berachain", nativeId |-> "80094"] @@
  138 :> [name |-> "BEVM", nativeId |-> "11501"] @@
  85 :> [name |-> "BiFrost", nativeId |-> "3068"] @@
  147 :> [name |-> "Bitlayer", nativeId |-> "200901"] @@
  494 :> [name |-> "Bittensor EVM", nativeId |-> "964"] @@
  96 :> [name |-> "Blast", nativeId |-> "81457"] @@
  150 :> [name |-> "BOB", nativeId |-> "60808"] @@
  411 :> [name |-> "Boba BNB", nativeId |-> "56288"] @@
  140 :> [name |-> "Boba ETH", nativeId |-> "288"] @@
  496 :> [name |-> "Botanix", nativeId |-> "3637"] @@
  14 :> [name |-> "BSC Mainnet", nativeId |-> "56"] @@
  148 :> [name |-> "B^2 Network", nativeId |-> "223"] @@
  126 :> [name |-> "Callisto", nativeId |-> "820"] @@
  502 :> [name |-> "CAMP", nativeId |-> "484"] @@
  21 :> [name |-> "Celo", nativeId |-> "42220"] @@
  333 :> [name |-> "CheeseChain", nativeId |-> "383353"] @@
  458 :> [name |-> "Civitia", nativeId |-> "1000024"] @@
  357 :> [name |-> "Codex", nativeId |-> "81224"] @@
  65 :> [name |-> "ConFlux", nativeId |-> "1030"] @@
  498 :> [name |-> "Converge", nativeId |-> "432"] @@
  416 :> [name |-> "Conwai", nativeId |-> "668668"] @@
  34 :> [name |-> "CoreDAO", nativeId |-> "1116"] @@
  391 :> [name |-> "Corn", nativeId |-> "21000000"] @@
  36 :> [name |-> "Cronos", nativeId |-> "25"] @@
  276 :> [name |-> "Cronos zkEVM", nativeId |-> "388"] @@
  135 :> [name |-> "Cyber", nativeId |-> "7560"] @@
  300 :> [name |-> "DeBank", nativeId |-> "20240603"] @@
  133 :> [name |-> "Degen", nativeId |-> "666666666"] @@
  365 :> [name |-> "Derive", nativeId |-> "957"] @@
  63 :> [name |-> "Dexalot", nativeId |-> "432204"] @@
  46 :> [name |-> "Dogechain", nativeId |-> "2000"] @@
  134 :> [name |-> "Dymension", nativeId |-> "1100"] @@
  459 :> [name |-> "Echelon", nativeId |-> "1000025"] @@
  328 :> [name |-> "Eclipse", nativeId |-> "1000002"] @@
  489 :> [name |-> "EDU", nativeId |-> "41923"] @@
  474 :> [name |-> "Embr", nativeId |-> "2598901095158506"] @@
  302 :> [name |-> "Endurance", nativeId |-> "648"] @@
  142 :> [name |-> "EOS EVM", nativeId |-> "17777"] @@
  255 :> [name |-> "Ethereum", nativeId |-> "1"] @@
  346 :> [name |-> "Etherlink", nativeId |-> "42793"] @@
  364 :> [name |-> "Ethernity", nativeId |-> "183"] @@
  71 :> [name |-> "ETHW", nativeId |-> "10001"] @@
  491 :> [name |-> "Everclear", nativeId |-> "25327"] @@
  39 :> [name |-> "EVMOS", nativeId |-> "9001"] @@
  403 :> [name |-> "ExSat", nativeId |-> "7200"] @@
  20 :> [name |-> "Fantom", nativeId |-> "250"] @@
  354 :> [name |-> "Flame", nativeId |-> "253368190"] @@
  38 :> [name |-> "Flare", nativeId |-> "14"] @@
  437 :> [name |-> "Flow EVM", nativeId |-> "747"] @@
  304 :> [name |-> "Fluence", nativeId |-> "9999999"] @@
  383 :> [name |-> "Form", nativeId |-> "478"] @@
  267 :> [name |-> "Forma", nativeId |-> "984122"] @@
  10 :> [name |-> "Fraxtal", nativeId |-> "252"] @@
  339 :> [name |-> "Fuel", nativeId |-> "1000006"] @@
  31 :> [name |-> "Fuse", nativeId |-> "122"] @@
  431 :> [name |-> "G7", nativeId |-> "2187"] @@
  16 :> [name |-> "Gnosis", nativeId |-> "100"] @@
  440 :> [name |-> "GOAT", nativeId |-> "2345"] @@
  240 :> [name |-> "Gravity", nativeId |-> "1625"] @@
  247 :> [name |-> "Ham", nativeId |-> "5112"] @@
  66 :> [name |-> "Harmony", nativeId |-> "1666600000"] @@
  408 :> [name |-> "Hashkey", nativeId |-> "177"] @@
  397 :> [name |-> "Hemi", nativeId |-> "43111"] @@
  495 :> [name |-> "Humanity", nativeId |-> "6985385"] @@
  501 :> [name |-> "Humanode", nativeId |-> "5234"] @@
  132 :> [name |-> "Hychain", nativeId |-> "2911"] @@
  291 :> [name |-> "HyperCore", nativeId |-> "88778877"] @@
  430 :> [name |-> "HyperEVM", nativeId |-> "999"] @@
  95 :> [name |-> "Immutable zkEVM", nativeId |-> "13371"] @@
  480 :> [name |-> "ING", nativeId |-> "2780922216980457"] @@
  456 :> [name |-> "Initia", nativeId |-> "1000023"] @@
  78 :> [name |-> "Injective EVM", nativeId |-> "2525"] @@
  392 :> [name |-> "Ink", nativeId |-> "57073"] @@
  460 :> [name |-> "INRT", nativeId |-> "1000026"] @@
  461 :> [name |-> "Intergaze", nativeId |-> "1000027"] @@
  67 :> [name |-> "IoTeX", nativeId |-> "4689"] @@
  33 :> [name |-> "Kaia", nativeId |-> "8217"] @@
  485 :> [name |-> "Katana", nativeId |-> "747474"] @@
  22 :> [name |-> "Kava", nativeId |-> "2222"] @@
  90 :> [name |-> "KCC", nativeId |-> "321"] @@
  478 :> [name |-> "LayerEdge", nativeId |-> "4207"] @@
  442 :> [name |-> "Lens", nativeId |-> "232"] @@
  79 :> [name |-> "Lightlink", nativeId |-> "1890"] @@
  59 :> [name |-> "Linea", nativeId |-> "59144"] @@
  238 :> [name |-> "Lisk", nativeId |-> "1135"] @@
  87 :> [name |-> "Lukso", nativeId |-> "42"] @@
  332 :> [name |-> "Lumia Prism", nativeId |-> "994873017"] @@
  100 :> [name |-> "Lumio", nativeId |-> "8866"] @@
  60 :> [name |-> "Manta", nativeId |-> "169"] @@
  13 :> [name |-> "Mantle Mainnet", nativeId |-> "5000"] @@
  294 :> [name |-> "Matchain", nativeId |-> "698"] @@
  9 :> [name |-> "Merlin", nativeId |-> "4200"] @@
  144 :> [name |-> "Metal", nativeId |-> "1750"] @@
  26 :> [name |-> "Meter", nativeId |-> "82"] @@
  30 :> [name |-> "Metis", nativeId |-> "1088"] @@
  499 :> [name |-> "Mezo", nativeId |-> "31612"] @@
  483 :> [name |-> "MilkyWay", nativeId |-> "1000033"] @@
  407 :> [name |-> "Mind", nativeId |-> "228"] @@
  253 :> [name |-> "Mint", nativeId |-> "185"] @@
  503 :> [name |-> "Mitosis", nativeId |-> "124816"] @@
  73 :> [name |-> "Mode", nativeId |-> "34443"] @@
  28 :> [name |-> "Moonbeam", nativeId |-> "1284"] @@
  29 :> [name |-> "Moonriver", nativeId |-> "1285"] @@
  340 :> [name |-> "Morph", nativeId |-> "2818"] @@
  97 :> [name |-> "Muster Network", nativeId |-> "4078"] @@
  92 :> [name |-> "Neon EVM", nativeId |-> "245022934"] @@
  477 :> [name |-> "Nibiru", nativeId |-> "6900"] @@
  259 :> [name |-> "Numbers", nativeId |-> "10507"] @@
  23 :> [name |-> "Oasis Emerald", nativeId |-> "42262"] @@
  69 :> [name |-> "Oasys", nativeId |-> "248"] @@
  490 :> [name |-> "OEV API3", nativeId |-> "4913"] @@
  35 :> [name |-> "OKX", nativeId |-> "66"] @@
  492 :> [name |-> "Onyx", nativeId |-> "80888"] @@
  55 :> [name |-> "OP Mainnet", nativeId |-> "10"] @@
  58 :> [name |-> "opBNB", nativeId |-> "204"] @@
  236 :> [name |-> "Optopia", nativeId |-> "62050"] @@
  74 :> [name |-> "Orderly", nativeId |-> "291"] @@
  423 :> [name |-> "Peaq", nativeId |-> "3338"] @@
  88 :> [name |-> "PEGO", nativeId |-> "20201022"] @@
  422 :> [name |-> "Phala", nativeId |-> "2035"] @@
  5 :> [name |-> "PlatON", nativeId |-> "210425"] @@
  450 :> [name |-> "Plume", nativeId |-> "98866"] @@
  17 :> [name |-> "Polygon", nativeId |-> "137"] @@
  52 :> [name |-> "Polygon zkEVM", nativeId |-> "1101"] @@
  367 :> [name |-> "Polynomial", nativeId |-> "8008"] @@
  448 :> [name |-> "Powerloom V2", nativeId |-> "7869"] @@
  378 :> [name |-> "Prom", nativeId |-> "227"] @@
  98 :> [name |-> "Proof of Play Apex", nativeId |-> "70700"] @@
  293 :> [name |-> "Proof of Play Boss", nativeId |-> "70701"] @@
  12 :> [name |-> "Pulsechain", nativeId |-> "369"] @@
  452 :> [name |-> "R5 Testnet", nativeId |-> "337"] @@
  298 :> [name |-> "Race", nativeId |-> "6805"] @@
  82 :> [name |-> "Rari", nativeId |-> "1380012617"] @@
  482 :> [name |-> "Rave", nativeId |-> "555110192329996"] @@
  149 :> [name |-> "Redstone", nativeId |-> "690"] @@
  466 :> [name |-> "Rena Nuwa", nativeId |-> "1000032"] @@
  234 :> [name |-> "Reya", nativeId |-> "1729"] @@
  396 :> [name |-> "River", nativeId |-> "550"] @@
  413 :> [name |-> "Ronin", nativeId |-> "2020"] @@
  254 :> [name |-> "Rootstock", nativeId |-> "30"] @@
  125 :> [name |-> "RSS3", nativeId |-> "12553"] @@
  295 :> [name |-> "Saakuru", nativeId |-> "7225878"] @@
  131 :> [name |-> "Sanko", nativeId |-> "1996"] @@
  6 :> [name |-> "SatoshiVM", nativeId |-> "3109"] @@
  246 :> [name |-> "Sei", nativeId |-> "1329"] @@
  443 :> [name |-> "Settlus", nativeId |-> "5371"] @@
  327 :> [name |-> "Shape", nativeId |-> "360"] @@
  455 :> [name |-> "zkCandy", nativeId |-> "320"] @@
  398 :> [name |-> "Skate", nativeId |-> "5050"] @@
  287 :> [name |-> "Snaxchain", nativeId |-> "2192"] @@
  245 :> [name |-> "Solana", nativeId |-> "501474"] @@
  504 :> [name |-> "Somnia", nativeId |-> "5031"] @@
  414 :> [name |-> "Soneium", nativeId |-> "1868"] @@
  389 :> [name |-> "Sonic", nativeId |-> "146"] @@
  410 :> [name |-> "Soon Mainnet", nativeId |-> "1000020"] @@
  484 :> [name |-> "Sophon", nativeId |-> "50104"] @@
  406 :> [name |-> "Spotlight", nativeId |-> "10058111"] @@
  64 :> [name |-> "Step", nativeId |-> "1234"] @@
  181 :> [name |-> "Story", nativeId |-> "1514"] @@
  347 :> [name |-> "Sui", nativeId |-> "1000010"] @@
  303 :> [name |-> "Superposition", nativeId |-> "55244"] @@
  366 :> [name |-> "Superseed", nativeId |-> "5330"] @@
  256 :> [name |-> "Swan", nativeId |-> "254"] @@
  385 :> [name |-> "Swell", nativeId |-> "1923"] @@
  19 :> [name |-> "SX Network", nativeId |-> "416"] @@
  137 :> [name |-> "Syndicate Frame", nativeId |-> "5101"] @@
  249 :> [name |-> "Taiko", nativeId |-> "167000"] @@
  47 :> [name |-> "Telos", nativeId |-> "40"] @@
  27 :> [name |-> "Tenet", nativeId |-> "1559"] @@
  258 :> [name |-> "ThunderCore", nativeId |-> "108"] @@
  75 :> [name |-> "Tron", nativeId |-> "1000001"] @@
  394 :> [name |-> "U2U Solaris", nativeId |-> "39"] @@
  362 :> [name |-> "Unichain", nativeId |-> "130"] @@
  419 :> [name |-> "UNIT0", nativeId |-> "88811"] @@
  488 :> [name |-> "Vana", nativeId |-> "1480"] @@
  395 :> [name |-> "Vanar", nativeId |-> "2040"] @@
  43 :> [name |-> "Viction", nativeId |-> "88"] @@
  301 :> [name |-> "Vizing", nativeId |-> "28518"] @@
  81 :> [name |-> "Wemix", nativeId |-> "1111"] @@
  269 :> [name |-> "WorldChain", nativeId |-> "480"] @@
  146 :> [name |-> "X Layer", nativeId |-> "196"] @@
  77 :> [name |-> "XAI", nativeId |-> "660279"] @@
  242 :> [name |-> "XCHAIN", nativeId |-> "94524"] @@
  420 :> [name |-> "XDC", nativeId |-> "50"] @@
  48 :> [name |-> "XPLA", nativeId |-> "37"] @@
  377 :> [name |-> "XRP", nativeId |-> "1000016"] @@
  487 :> [name |-> "XRPL EVM", nativeId |-> "1440000"] @@
  239 :> [name |-> "Xterio", nativeId |-> "2702128"] @@
  471 :> [name |-> "Yominet EVM", nativeId |-> "428962654539583"] @@
  481 :> [name |-> "Zaar", nativeId |-> "1335097526422335"] @@
  361 :> [name |-> "ZERO", nativeId |-> "543210"] @@
  94 :> [name |-> "Zeta", nativeId |-> "7000"] @@
  353 :> [name |-> "Zircuit", nativeId |-> "48900"] @@
  50 :> [name |-> "zkFair", nativeId |-> "42766"] @@
  136 :> [name |-> "zkLink Nova", nativeId |-> "810180"] @@
  41 :> [name |-> "zkScroll", nativeId |-> "534352"] @@
  51 :> [name |-> "zkSync Era", nativeId |-> "324"] @@
  56 :> [name |-> "Zora", nativeId |-> "7777777"]

\* Mutation: any value of 1..65535 counts as a chain id.
isKnownRange(val) == val >= 1 /\ val <= 65535

isKnown(val) == val \in DOMAIN GASZIP_CHAINS

\* Number.prototype.toString(16) digits.
LowerDigits == <<"0", "1", "2", "3", "4", "5", "6", "7", "8", "9", "a", "b", "c", "d", "e", "f">>
UpperDigits == <<"0", "1", "2", "3", "4", "5", "6", "7", "8", "9", "A", "B", "C", "D", "E", "F">>

IsHexDigit(c) == \E i \in 1..16 : LowerDigits[i] = c \/ UpperDigits[i] = c
HexDigitValue(c) == (CHOOSE i \in 1..16 : LowerDigits[i] = c \/ UpperDigits[i] = c) - 1

startsWith0x(s) == Len(s) >= 2 /\ s[1] = "0" /\ s[2] = "x"

\* Value of the longest prefix of s made of hex digits, and its length.
RECURSIVE ParseDigits(_, _, _)
ParseDigits(s, acc, n) ==
  IF s # <<>> /\ IsHexDigit(Head(s))
  THEN ParseDigits(Tail(s), acc * 16 + HexDigitValue(Head(s)), n + 1)
  ELSE [value |-> acc, digits |-> n]

RECURSIVE TrimStart(_)
TrimStart(s) == IF s # <<>> /\ Head(s) = " " THEN TrimStart(Tail(s)) ELSE s

\* parseInt(s, 16): leading white space is skipped, then an optional sign,
\* then an optional 0x or 0X, then the longest run of hex digits; NaN when
\* that run is empty.  Trailing characters are ignored.
parseInt16(s) ==
  LET t == TrimStart(s)
      neg == t # <<>> /\ Head(t) = "-"
      u == IF t # <<>> /\ Head(t) \in {"-", "+"} THEN Tail(t) ELSE t
      w == IF Len(u) >= 2 /\ u[1] = "0" /\ u[2] \in {"x", "X"} THEN SubSeq(u, 3, Len(u)) ELSE u
      p == ParseDigits(w, 0, 0)
  IN  IF p.digits = 0 THEN [nan |-> TRUE, value |-> 0]
      ELSE [nan |-> FALSE, value |-> IF neg THEN 0 - p.value ELSE p.value]

\* Storing a number into a Uint8Array element: NaN becomes 0, the rest wraps.
ToUint8(r) == IF r.nan THEN 0 ELSE r.value % 256

\* Mutation: the bare marker "0x" is rejected with the other malformed strings.
assertHexNonEmpty(input) ==
  IF ~startsWith0x(input) \/ Len(input) % 2 # 0 \/ Len(input) <= 2
  THEN Throw("Expected 0x-prefixed even-length hex string")
  ELSE Return(None)

assertHex(input) ==
  IF ~startsWith0x(input) \/ Len(input) % 2 # 0
  THEN Throw("Expected 0x-prefixed even-length hex string")
  ELSE Return(None)

hexToBytes(hex) ==
  LET h == IF startsWith0x(hex) THEN SubSeq(hex, 3, Len(hex)) ELSE hex
  IN  IF Len(h) % 2 # 0 THEN Throw("Invalid hex length")
      ELSE Return([i \in 1..(Len(h) \div 2) |-> ToUint8(parseInt16(SubSeq(h, 2 * i - 1, 2 * i)))])

\* b.toString(16).padStart(2, '0') of one byte.
ByteHex(b) == <<LowerDigits[(b \div 16) + 1], LowerDigits[(b % 16) + 1]>>

\* Mutation: the digits are written in upper case.
bytesToHexUpper(bytes) ==
  <<"0", "x">> \o
  [i \in 1..(2 * Len(bytes)) |->
     <<UpperDigits[(bytes[(i + 1) \div 2] \div 16) + 1], UpperDigits[(bytes[(i + 1) \div 2] % 16) + 1]>>[2 - (i % 2)]]

bytesToHex(bytes) ==
  <<"0", "x">> \o [i \in 1..(2 * Len(bytes)) |-> ByteHex(bytes[(i + 1) \div 2])[2 - (i % 2)]]

\* Mutation: the two bytes read in little-endian order.
readU16LE(bytes, offset) == bytes[offset + 2] * 256 + bytes[offset + 1]

readU16BE(bytes, offset) == bytes[offset + 1] * 256 + bytes[offset + 2]

\* Mutation: the Initia address is taken to be 32 bytes long.
fixedLenInitia32(prefix) ==
  IF prefix = 1 THEN Some(0)
  ELSE IF prefix = 2 THEN Some(20)
  ELSE IF prefix = 4 THEN Some(32)
  ELSE IF prefix = 6 THEN Some(32)
  ELSE None

\* Address length fixed by the prefix; None for 0x03, 0x05 and the rest.
fixedLen(prefix) ==
  IF prefix = 1 THEN Some(0)
  ELSE IF prefix = 2 THEN Some(20)
  ELSE IF prefix = 4 THEN Some(32)
  ELSE IF prefix = 6 THEN Some(20)
  ELSE None

\* for (let i = 0; i < tail.length; i += 2) chainIds.push(readU16BE(tail, i))
RECURSIVE TailChainIds(_, _, _)
TailChainIds(tail, i, chainIds) ==
  IF i < Len(tail) THEN TailChainIds(tail, i + 2, Append(chainIds, readU16BE(tail, i)))
  ELSE chainIds

\* The backward scan: while (end - 2 >= 1) { ... }.
RECURSIVE ScanTail(_, _, _)
ScanTail(body, end, chainIdsRev) ==
  IF end - 2 >= 1
  THEN LET val == readU16BE(body, end - 2)
       IN  IF ~isKnown(val) /\ Len(chainIdsRev) > 0
           THEN [end |-> end, chainIdsRev |-> chainIdsRev]
           ELSE ScanTail(body, end - 2, Append(chainIdsRev, val))
  ELSE [end |-> end, chainIdsRev |-> chainIdsRev]

Reverse(s) == [i \in 1..Len(s) |-> s[Len(s) + 1 - i]]

\* Mutation: the chain-id tail is also handed back as leftovers.
SplitFixedKeepsTail(body, L) ==
  IF Len(body) < L THEN Throw("Calldata too short for expected address length")
  ELSE LET addressBytes == SubSeq(body, 1, L)
           tail == SubSeq(body, L + 1, Len(body))
       IN  IF Len(tail) % 2 # 0 THEN Throw("Chain IDs tail must be a multiple of 2 bytes")
           ELSE Return([addressBytes |-> addressBytes,
                        chainIds |-> TailChainIds(tail, 0, <<>>),
                        leftovers |-> Some(tail)])

\* Mutation: the parity of the tail is tested before the length of the body.
SplitFixedTailFirst(body, L) ==
  IF (Len(body) - L) % 2 # 0 THEN Throw("Chain IDs tail must be a multiple of 2 bytes")
  ELSE IF Len(body) < L THEN Throw("Calldata too short for expected address length")
  ELSE Return([addressBytes |-> SubSeq(body, 1, L),
               chainIds |-> TailChainIds(SubSeq(body, L + 1, Len(body)), 0, <<>>),
               leftovers |-> None])

SplitFixed(body, L) ==
  IF Len(body) < L THEN Throw("Calldata too short for expected address length")
  ELSE LET addressBytes == SubSeq(body, 1, L)
           tail == SubSeq(body, L + 1, Len(body))
       IN  IF Len(tail) % 2 # 0 THEN Throw("Chain IDs tail must be a multiple of 2 bytes")
           ELSE Return([addressBytes |-> addressBytes,
                        chainIds |-> TailChainIds(tail, 0, <<>>),
                        leftovers |-> None])

SplitSolana(body) ==
  Return([addressBytes |-> SubSeq(body, 1, 32),
          chainIds |-> TailChainIds(SubSeq(body, 33, Len(body)), 0, <<>>),
          leftovers |-> None])

\* Mutation: the accepted ids are returned in scan order, not reversed.
SplitHeuristicNoReverse(body) ==
  LET s == ScanTail(body, Len(body), <<>>)
  IN  Return([addressBytes |-> SubSeq(body, 1, s.end),
              chainIds |-> s.chainIdsRev,
              leftovers |-> None])

\* Mutation: the address is sliced one byte short, body.slice(0, end - 1).
SplitHeuristicOffByOne(body) ==
  LET s == ScanTail(body, Len(body), <<>>)
  IN  Return([addressBytes |-> SubSeq(body, 1, s.end - 1),
              chainIds |-> Reverse(s.chainIdsRev),
              leftovers |-> None])

\* Mutation: the body is also handed back as leftovers.
SplitHeuristicKeepsBody(body) ==
  LET s == ScanTail(body, Len(body), <<>>)
  IN  Return([addressBytes |-> SubSeq(body, 1, s.end),
              chainIds |-> Reverse(s.chainIdsRev),
              leftovers |-> Some(body)])

\* Mutation: the scan runs while (end - 2 >= 0).
RECURSIVE ScanTailToZero(_, _, _)
ScanTailToZero(body, end, chainIdsRev) ==
  IF end - 2 >= 0
  THEN LET val == readU16BE(body, end - 2)
       IN  IF ~isKnown(val) /\ Len(chainIdsRev) > 0
           THEN [end |-> end, chainIdsRev |-> chainIdsRev]
           ELSE ScanTailToZero(body, end - 2, Append(chainIdsRev, val))
  ELSE [end |-> end, chainIdsRev |-> chainIdsRev]

SplitHeuristicToZero(body) ==
  LET s == ScanTailToZero(body, Len(body), <<>>)
  IN  Return([addressBytes |-> SubSeq(body, 1, s.end),
              chainIds |-> Reverse(s.chainIdsRev),
              leftovers |-> None])

SplitHeuristic(body) ==
  LET s == ScanTail(body, Len(body), <<>>)
  IN  Return([addressBytes |-> SubSeq(body, 1, s.end),
              chainIds |-> Reverse(s.chainIdsRev),
              leftovers |-> None])

\* Mutation: only a body of exactly 32 bytes is parsed deterministically.
TakesFastPathExact(prefix, body) == prefix = 3 /\ Len(body) = 32

TakesFastPath(prefix, body) == prefix = 3 /\ Len(body) >= 32 /\ (Len(body) - 32) % 2 = 0

\* Mutation: a prefix without a known address family is rejected.
splitAddressAndChainsStrict(prefix, body) ==
  IF fixedLen(prefix) # None THEN SplitFixed(body, fixedLen(prefix)[1])
  ELSE IF TakesFastPath(prefix, body) THEN SplitSolana(body)
  ELSE IF prefix \notin {3, 5} THEN Throw("Unknown prefix")
  ELSE SplitHeuristic(body)

splitAddressAndChains(prefix, body) ==
  IF fixedLen(prefix) # None THEN SplitFixed(body, fixedLen(prefix)[1])
  ELSE IF TakesFastPath(prefix, body) THEN SplitSolana(body)
  ELSE SplitHeuristic(body)

\* The text an encoder library returns for the given bytes; '' is EmptyText.
EncodedText(alphabet, bytes) == [alphabet |-> alphabet, bytes |-> bytes]
EmptyText == [alphabet |-> "", bytes |-> <<>>]

\* GASZIP_CHAINS[id], undefined when id is not a key.
lookup(id) == IF id \in DOMAIN GASZIP_CHAINS THEN Some(GASZIP_CHAINS[id]) ELSE None

\* Mutation: an unregistered id is given a placeholder name.
mappedChainsPlaceholder(chainIds) ==
  [i \in 1..Len(chainIds) |->
     [id |-> chainIds[i],
      name |-> IF lookup(chainIds[i]) # None THEN Some(lookup(chainIds[i])[1].name) ELSE Some("Unknown"),
      nativeId |-> IF lookup(chainIds[i]) # None THEN Some(lookup(chainIds[i])[1].nativeId) ELSE None]]

mappedChains(chainIds) ==
  [i \in 1..Len(chainIds) |->
     [id |-> chainIds[i],
      name |-> IF lookup(chainIds[i]) # None THEN Some(lookup(chainIds[i])[1].name) ELSE None,
      nativeId |-> IF lookup(chainIds[i]) # None THEN Some(lookup(chainIds[i])[1].nativeId) ELSE None]]

\* destination: {} with every optional field absent.
EmptyDestination ==
  [evm |-> None, move |-> None, base58 |-> None, base58Hex |-> None, solanaLike |-> None,
   xrp |-> None, initia |-> None, initiaHex |-> None]

leftoversHex(leftovers) ==
  IF leftovers # None /\ Len(leftovers[1]) > 0 THEN Some(bytesToHex(leftovers[1])) ELSE None

base(input, prefix, s) ==
  [raw |-> input,
   prefix |-> <<"0", "x">> \o ByteHex(prefix),
   chainIds |-> mappedChains(s.chainIds),
   leftoversHex |-> leftoversHex(s.leftovers),
   destination |-> EmptyDestination]

Decoded(b, type, destination) ==
  [type |-> type, raw |-> b.raw, prefix |-> b.prefix, destination |-> destination,
   chainIds |-> b.chainIds, leftoversHex |-> b.leftoversHex]

\* Mutation: the bech32 conversion is not wrapped in try/catch.
encodeNoCatch(input, prefix, s, encOk) ==
  LET b == base(input, prefix, s)
      addressBytes == s.addressBytes
  IN  IF prefix = 1 THEN Return(Decoded(b, "SELF", b.destination))
      ELSE IF prefix = 2 THEN
        IF Len(addressBytes) # 20 THEN Throw("EVM address must be 20 bytes")
        ELSE Return(Decoded(b, "EVM", [b.destination EXCEPT !.evm = Some(bytesToHex(addressBytes))]))
      ELSE IF prefix = 4 THEN
        IF Len(addressBytes) # 32 THEN Throw("MOVE/FUEL address must be 32 bytes")
        ELSE Return(Decoded(b, "MOVE", [b.destination EXCEPT !.move = Some(bytesToHex(addressBytes))]))
      ELSE IF prefix = 6 THEN
        IF Len(addressBytes) # 20 THEN Throw("Initia address expected 20 bytes")
        ELSE IF ~encOk THEN Throw("bech32 encoding failed")
        ELSE Return(Decoded(b, "INITIA",
               [b.destination EXCEPT
                  !.initia = IF encOk THEN Some(EncodedText("bech32:init", addressBytes)) ELSE None,
                  !.initiaHex = Some(bytesToHex(addressBytes))]))
      ELSE IF prefix = 3 THEN
        Return(Decoded(b, "BASE58",
               [b.destination EXCEPT
                  !.base58 = Some(IF encOk THEN EncodedText("bs58", addressBytes) ELSE EmptyText),
                  !.base58Hex = Some(bytesToHex(addressBytes)),
                  !.solanaLike = Some(Len(addressBytes) = 32)]))
      ELSE IF prefix = 5 THEN
        Return(Decoded(b, "XRP",
               [b.destination EXCEPT
                  !.xrp = Some(IF encOk THEN EncodedText("xrpl", addressBytes) ELSE EmptyText)]))
      ELSE Return(Decoded(b, "UNKNOWN", b.destination))

\* Lines 367-417: the per-prefix encoders.  encOk is whether the encoder
\* library (bs58, base-x, bech32) returns; when it throws the catch block
\* leaves the initial value of the text.
encode(input, prefix, s, encOk) ==
  LET b == base(input, prefix, s)
      addressBytes == s.addressBytes
  IN  IF prefix = 1 THEN Return(Decoded(b, "SELF", b.destination))
      ELSE IF prefix = 2 THEN
        IF Len(addressBytes) # 20 THEN Throw("EVM address must be 20 bytes")
        ELSE Return(Decoded(b, "EVM", [b.destination EXCEPT !.evm = Some(bytesToHex(addressBytes))]))
      ELSE IF prefix = 4 THEN
        IF Len(addressBytes) # 32 THEN Throw("MOVE/FUEL address must be 32 bytes")
        ELSE Return(Decoded(b, "MOVE", [b.destination EXCEPT !.move = Some(bytesToHex(addressBytes))]))
      ELSE IF prefix = 6 THEN
        IF Len(addressBytes) # 20 THEN Throw("Initia address expected 20 bytes")
        ELSE Return(Decoded(b, "INITIA",
               [b.destination EXCEPT
                  !.initia = IF encOk THEN Some(EncodedText("bech32:init", addressBytes)) ELSE None,
                  !.initiaHex = Some(bytesToHex(addressBytes))]))
      ELSE IF prefix = 3 THEN
        Return(Decoded(b, "BASE58",
               [b.destination EXCEPT
                  !.base58 = Some(IF encOk THEN EncodedText("bs58", addressBytes) ELSE EmptyText),
                  !.base58Hex = Some(bytesToHex(addressBytes)),
                  !.solanaLike = Some(Len(addressBytes) = 32)]))
      ELSE IF prefix = 5 THEN
        Return(Decoded(b, "XRP",
               [b.destination EXCEPT
                  !.xrp = Some(IF encOk THEN EncodedText("xrpl", addressBytes) ELSE EmptyText)]))
      ELSE Return(Decoded(b, "UNKNOWN", b.destination))

\* decodeGasZipCalldata with its locals: data is what hexToBytes did at line
\* 351, split what splitAddressAndChains did at line 356, enc whether an
\* encoder library was called and returned; None for a call never made.
EncoderCalled(prefix, s) ==
  \/ prefix \in {3, 5}
  \/ prefix = 6 /\ Len(s.addressBytes) = 20

decodeRun(input, encOk) ==
  IF assertHex(input).threw
  THEN [data |-> None, split |-> None, enc |-> None, result |-> assertHex(input)]
  ELSE LET data == hexToBytes(input)
       IN  IF data.threw
           THEN [data |-> Some(data), split |-> None, enc |-> None, result |-> data]
           ELSE IF Len(data.value) < 1
           THEN [data |-> Some(data), split |-> None, enc |-> None, result |-> Throw("Empty calldata")]
           ELSE LET prefix == data.value[1]
                    body == Tail(data.value)
                    s == splitAddressAndChains(prefix, body)
                IN  IF s.threw
                    THEN [data |-> Some(data), split |-> Some(s), enc |-> None, result |-> s]
                    ELSE [data |-> Some(data), split |-> Some(s),
                          enc |-> IF EncoderCalled(prefix, s.value) THEN Some(encOk) ELSE None,
                          result |-> encode(input, prefix, s.value, encOk)]

decodeGasZipCalldata(input, encOk) == decodeRun(input, encOk).result

(***************************************************************************)
(* Inputs.                                                                 *)
(***************************************************************************)
\* Characters of the arbitrary strings: hex digits of both cases, the x of
\* the marker, a non-hex letter and a sign.
Chars == {"0", "1", "x", "f", "A", "g", "-"}
CharInputs == UNION {[1..n -> Chars] : n \in 0..MaxChars}

\* Generated payloads: a prefix byte, then a body whose last MaxFree bytes
\* vary freely and whose other bytes repeat a two-byte pattern aligned to
\* the end of the body (0xabcd is not a registered id, 0x0036 is).  The
\* payload is written out in hex by PayloadHex, digit by digit.
PrefixBytes == {0, 1, 2, 3, 4, 5, 6, 7, 255}
FreeBytes == {0, 54}
FillPairs == {<<171, 205>>, <<0, 54>>}

Min(a, b) == IF a < b THEN a ELSE b

MkBody(n, fill, free) ==
  [i \in 1..n |->
     IF i > n - Len(free) THEN free[i - (n - Len(free))]
     ELSE IF (n - i) % 2 = 1 THEN fill[1] ELSE fill[2]]

Bodies ==
  UNION {{MkBody(n, fill, free) : fill \in FillPairs, free \in [1..Min(n, MaxFree) -> FreeBytes]} :
           n \in 0..MaxBody}

PayloadDigits == <<"0", "1", "2", "3", "4", "5", "6", "7", "8", "9", "a", "b", "c", "d", "e", "f">>

PayloadHex(payload) ==
  <<"0", "x">> \o
  [i \in 1..(2 * Len(payload)) |->
     IF i % 2 = 1 THEN PayloadDigits[(payload[(i + 1) \div 2] \div 16) + 1]
     ELSE PayloadDigits[(payload[i \div 2] % 16) + 1]]

PayloadInputs == {PayloadHex(<<p>> \o body) : p \in PrefixBytes, body \in Bodies}

Inputs == CharInputs \cup PayloadInputs

(***************************************************************************)
(* The batch fetch loop of main (src/src/fetch-gaszip-base.ts).  A         *)
(* transaction is kept by its input field alone; the row is kept as its    *)
(* input and decode columns, before csvEscape and join.                    *)
(***************************************************************************)
\* tx.input of the transactions a response can hold: undefined, "0x" (a
\* value-only transfer), a SELF payload, an EVM payload that is too short,
\* and an XRP payload.
TxInputs ==
  {None,
   Some(<<"0", "x">>),
   Some(<<"0", "x", "0", "1", "0", "0", "3", "6">>),
   Some(<<"0", "x", "0", "2">>),
   Some(<<"0", "x", "0", "5", "a", "b", "0", "0", "3", "6">>)}

Transactions == [input : TxInputs]

Pages == UNION {[1..n -> Transactions] : n \in 0..MaxPage}

\* const input: string = (tx as any).input || '0x'
txInput(tx) == IF tx.input = None \/ tx.input[1] = <<>> THEN <<"0", "x">> ELSE tx.input[1]

\* d.destination?.field || '' for a hex field, a text field and solanaLike.
hexOrEmpty(field) == IF field = None THEN <<>> ELSE field[1]
textOrEmpty(field) == IF field = None THEN EmptyText ELSE field[1]
trueOrEmpty(field) == IF field = Some(TRUE) THEN "true" ELSE ""

\* The decode columns as declared before the if statement.
EmptyColumns ==
  [decode_type |-> "", prefix |-> <<>>, dest_evm |-> <<>>, dest_move |-> <<>>,
   dest_base58 |-> EmptyText, dest_base58_hex |-> <<>>, dest_solana_like |-> "",
   dest_xrp |-> EmptyText, dest_initia |-> EmptyText, dest_initia_hex |-> <<>>,
   chain_ids |-> None, decode_error |-> ""]

\* Lines 407-418: the columns taken from a result d the decoder returned.
decodedOutcome(d) ==
  [columns |->
     [decode_type |-> d.value.type,
      prefix |-> d.value.prefix,
      dest_evm |-> hexOrEmpty(d.value.destination.evm),
      dest_move |-> hexOrEmpty(d.value.destination.move),
      dest_base58 |-> textOrEmpty(d.value.destination.base58),
      dest_base58_hex |-> hexOrEmpty(d.value.destination.base58Hex),
      dest_solana_like |-> trueOrEmpty(d.value.destination.solanaLike),
      dest_xrp |-> textOrEmpty(d.value.destination.xrp),
      dest_initia |-> textOrEmpty(d.value.destination.initia),
      dest_initia_hex |-> hexOrEmpty(d.value.destination.initiaHex),
      chain_ids |-> Some(d.value.chainIds),
      decode_error |-> ""],
   ok |-> 1, err |-> 0, escaped |-> FALSE]

\* Lines 419-423: the catch block, for the error d the decoder threw.
caughtOutcome(d) ==
  [columns |-> [EmptyColumns EXCEPT !.decode_type = "DECODE_ERROR", !.decode_error = d.error],
   ok |-> 0, err |-> 1, escaped |-> FALSE]

\* The decoder is not called: every column keeps its initial ''.
skippedOutcome == [columns |-> EmptyColumns, ok |-> 0, err |-> 0, escaped |-> FALSE]

\* Mutation: the decoder is called on every input, "0x" included.
tryDecodeNoSkip(input, encOk) ==
  CHOOSE r \in {IF ~d.threw THEN decodedOutcome(d) ELSE caughtOutcome(d) :
                  d \in {decodeGasZipCalldata(input, encOk)}} : TRUE

\* Mutation: the call of the decoder is not wrapped in try/catch, so its
\* error leaves the loop.
tryDecodeNoCatch(input, encOk) ==
  IF input # <<>> /\ input # <<"0", "x">>
  THEN CHOOSE r \in {IF ~d.threw THEN decodedOutcome(d) ELSE [skippedOutcome EXCEPT !.escaped = TRUE] :
                       d \in {decodeGasZipCalldata(input, encOk)}} : TRUE
  ELSE skippedOutcome

\* Lines 391-424: the decode columns of one transaction and the increments
\* of decodedOk and decodedErr.  chain_ids is the array given to
\* JSON.stringify, None while it is still ''.  escaped is whether an error
\* leaves the statement; the catch block takes every error of the decoder.
\* The decoder is called once: d ranges over the singleton of its outcome.
tryDecode(input, encOk) ==
  IF input # <<>> /\ input # <<"0", "x">>
  THEN CHOOSE r \in {IF ~d.threw THEN decodedOutcome(d) ELSE caughtOutcome(d) :
                       d \in {decodeGasZipCalldata(input, encOk)}} : TRUE
  ELSE skippedOutcome

\* Lines 430-455: the row written for a transaction.
Row(input, columns) == [input |-> input, columns |-> columns]

(***************************************************************************)
(* The state machine: one call of decodeGasZipCalldata, or one call of     *)
(* hexToBytes, on an input; and one run of the fetch loop.                 *)
(***************************************************************************)
VARIABLES input, pc, result, data, split, enc, bytes

\* The fetch loop: fpc is its position, limit the --limit argument (0 when
\* absent), page the transactions of the current response still to handle,
\* received every transaction handed over so far, rows the rows written,
\* ended whether outStream.end() was called, log the numbers of the final
\* console.log.
VARIABLES fpc, limit, page, received, total, decodedOk, decodedErr, rows, ended, log

decoderVars == <<input, pc, result, data, split, enc, bytes>>
fetchVars == <<fpc, limit, page, received, total, decodedOk, decodedErr, rows, ended, log>>
vars == <<decoderVars, fetchVars>>

\* No decode call is under way.
DecoderIdle ==
  /\ input = <<>>
  /\ pc = "idle"
  /\ result = None
  /\ data = None
  /\ split = None
  /\ enc = None
  /\ bytes = None

\* main has not been started.
FetchIdle ==
  /\ fpc = "idle"
  /\ limit = 0
  /\ page = <<>>
  /\ received = <<>>
  /\ total = 0
  /\ decodedOk = 0
  /\ decodedErr = 0
  /\ rows = <<>>
  /\ ended = FALSE
  /\ log = None

Init ==
  /\ input \in Inputs
  /\ pc = "start"
  /\ result = None
  /\ data = None
  /\ split = None
  /\ enc = None
  /\ bytes = None
  /\ FetchIdle

Decode ==
  /\ pc = "start"
  /\ \E encOk \in BOOLEAN :
       LET r == decodeRun(input, encOk)
       IN  /\ result' = Some(r.result)
           /\ data' = r.data
           /\ split' = r.split
           /\ enc' = r.enc
  /\ pc' = "decoded"
  /\ UNCHANGED <<input, bytes, fetchVars>>

HexToBytes ==
  /\ pc = "start"
  /\ bytes' = Some(hexToBytes(input))
  /\ pc' = "converted"
  /\ UNCHANGED <<input, result, data, split, enc, fetchVars>>

Next == Decode \/ HexToBytes

Spec == Init /\ [][Next]_vars

\* main up to the stream loop: the header is written and the counters are 0.
FetchInit ==
  /\ DecoderIdle
  /\ fpc = "recv"
  /\ limit \in 0..MaxLimit
  /\ page = <<>>
  /\ received = <<>>
  /\ total = 0
  /\ decodedOk = 0
  /\ decodedErr = 0
  /\ rows = <<>>
  /\ ended = FALSE
  /\ log = None

\* stream.recv() returns a response; one without transactions is passed over.
RecvPage ==
  /\ fpc = "recv"
  /\ \E p \in Pages :
       /\ total + Len(p) <= MaxTxs
       /\ page' = p
       /\ received' = received \o p
       /\ fpc' = IF Len(p) > 0 THEN "txs" ELSE "recv"
  /\ UNCHANGED <<limit, total, decodedOk, decodedErr, rows, ended, log, decoderVars>>

\* stream.recv() returns null: the loop is left, the file is closed.
RecvEnd ==
  /\ fpc = "recv"
  /\ ended' = TRUE
  /\ log' = Some([stopped |-> FALSE, transactions |-> total, decoded |-> decodedOk, errors |-> decodedErr])
  /\ fpc' = "done"
  /\ UNCHANGED <<limit, page, received, total, decodedOk, decodedErr, rows, decoderVars>>

\* One pass of the loop over res.data.transactions, lines 370-456.
ProcessTx ==
  /\ fpc = "txs"
  /\ total' = total + 1
  /\ IF limit # 0 /\ total + 1 > limit
     THEN /\ ended' = TRUE
          /\ log' = Some([stopped |-> TRUE, transactions |-> (total + 1) - 1,
                          decoded |-> decodedOk, errors |-> decodedErr])
          /\ fpc' = "stopped"
          /\ UNCHANGED <<page, decodedOk, decodedErr, rows>>
     ELSE \E encOk \in BOOLEAN :
          \E r \in {tryDecode(txInput(Head(page)), encOk)} :
            LET in == txInput(Head(page))
            IN  /\ decodedOk' = decodedOk + r.ok
                /\ decodedErr' = decodedErr + r.err
                /\ IF r.escaped
                   THEN /\ fpc' = "fatal"
                        /\ UNCHANGED <<page, rows>>
                   ELSE /\ rows' = Append(rows, Row(in, r.columns))
                        /\ page' = Tail(page)
                        /\ fpc' = IF Len(page) > 1 THEN "txs" ELSE "recv"
                /\ UNCHANGED <<ended, log>>
  /\ UNCHANGED <<limit, received, decoderVars>>

FetchNext == RecvPage \/ RecvEnd \/ ProcessTx

SpecFetch == FetchInit /\ [][FetchNext]_vars

TypeOK ==
  /\ pc \in {"idle", "start", "decoded", "converted"}
  /\ pc = "decoded" <=> result # None
  /\ pc = "converted" <=> bytes # None
  /\ fpc \in {"idle", "recv", "txs", "done", "stopped", "fatal"}
  /\ total \in 0..(MaxTxs + 1)
  /\ ended <=> fpc \in {"done", "stopped"}

(***************************************************************************)
(* Properties.  The payload a decode call worked on is read from its       *)
(* locals: PrefixByte is data[0], BodyBytes is data.slice(1).              *)
(***************************************************************************)
HasPayload == pc = "decoded" /\ data # None /\ ~data[1].threw /\ Len(data[1].value) >= 1
PrefixByte == data[1].value[1]
BodyBytes == Tail(data[1].value)
Res == result[1]

AddressLengthError == "Calldata too short for expected address length"
ChainTailError == "Chain IDs tail must be a multiple of 2 bytes"
EmptyCalldataError == "Empty calldata"
InvalidHexErrors == {"Expected 0x-prefixed even-length hex string", "Invalid hex length"}

\* The address length the specification gives a fixed-length prefix.
DeclaredLength(p) == CASE p = 1 -> 0 [] p = 2 -> 20 [] p = 4 -> 32 [] p = 6 -> 20

\* C1: under prefix 0x01, 0x02, 0x04 or 0x06 with address length L, a body
\* of length L + 2k decodes without error to exactly k chain ids, the i-th
\* being the big-endian uint16 at body[L+2i .. L+2i+1], in original order.
C1_FixedLengthDecodes ==
  (HasPayload /\ PrefixByte \in {1, 2, 4, 6}) =>
    LET L == DeclaredLength(PrefixByte)
        n == Len(BodyBytes)
        k == (n - L) \div 2
    IN  (n >= L /\ (n - L) % 2 = 0) =>
          /\ ~Res.threw
          /\ Len(Res.value.chainIds) = k
          /\ \A i \in 0..(k - 1) :
               Res.value.chainIds[i + 1].id = BodyBytes[L + 2 * i + 1] * 256 + BodyBytes[L + 2 * i + 2]

\* A MOVE payload with the chain id 0x0036 twice has been decoded.
C1_Witness ==
  /\ HasPayload
  /\ PrefixByte = 4
  /\ Len(BodyBytes) = 36
  /\ ~Res.threw
  /\ Len(Res.value.chainIds) = 2
  /\ Res.value.chainIds[1].id = 54
  /\ Res.value.chainIds[2].id = 54

\* C2: under a fixed-length prefix with address length L, decode fails with
\* the address-length error when the body is shorter than L (whatever the
\* parity of the difference) and with the chain-tail error when the body has
\* at least L bytes and an odd number of bytes after them.
C2_FixedLengthErrors ==
  (HasPayload /\ PrefixByte \in {1, 2, 4, 6}) =>
    LET L == DeclaredLength(PrefixByte)
        n == Len(BodyBytes)
    IN  /\ n < L => (Res.threw /\ Res.error = AddressLengthError)
        /\ (n >= L /\ (n - L) % 2 = 1) => (Res.threw /\ Res.error = ChainTailError)

\* 0x02 followed by nineteen bytes has failed with the address-length error.
C2_Witness ==
  /\ HasPayload
  /\ PrefixByte = 2
  /\ Len(BodyBytes) = 19
  /\ Res.threw
  /\ Res.error = AddressLengthError

\* C3: a payload whose first byte is outside 0x01..0x06 always decodes to a
\* result of type UNKNOWN, whatever the body, and never throws.
C3_UnknownPrefixNeverThrows ==
  (HasPayload /\ PrefixByte \notin 1..6) =>
    (~Res.threw /\ Res.value.type = "UNKNOWN")

\* An empty body after 0x07 has been decoded to UNKNOWN.
C3_Witness ==
  /\ HasPayload
  /\ PrefixByte = 7
  /\ BodyBytes = <<>>
  /\ ~Res.threw
  /\ Res.value.type = "UNKNOWN"

\* What the splitter returned to the decode call, when it returned.
SplitReturned == HasPayload /\ split # None /\ ~split[1].threw
SplitValue == split[1].value

\* The big-endian pair at JavaScript offset o of the body.
PairAt(o) == BodyBytes[o + 1] * 256 + BodyBytes[o + 2]

\* C4 as stated: for a payload with an unrecognized prefix the UNKNOWN result
\* has an empty destination and carries the full body in its leftover field.
C4_Original ==
  (HasPayload /\ PrefixByte \notin 1..6 /\ ~Res.threw) =>
    /\ Res.value.destination = EmptyDestination
    /\ BodyBytes # <<>> => Res.value.leftoversHex = Some(bytesToHex(BodyBytes))

\* C4 (amended): for a payload with an unrecognized prefix the UNKNOWN result
\* has an empty destination and no leftover field at all; the body is kept
\* only inside raw, which echoes the input string.
C4_UnknownHasNoLeftover ==
  (HasPayload /\ PrefixByte \notin 1..6 /\ ~Res.threw) =>
    /\ Res.value.type = "UNKNOWN"
    /\ Res.value.destination = EmptyDestination
    /\ Res.value.leftoversHex = None
    /\ Res.value.raw = input

\* A non-empty body after 0x07 has been decoded and no leftover is reported.
C4_Witness ==
  /\ HasPayload
  /\ PrefixByte = 7
  /\ Len(BodyBytes) >= 3
  /\ ~Res.threw
  /\ Res.value.type = "UNKNOWN"
  /\ Res.value.leftoversHex = None

\* C5: under prefix 0x05 a body of at least 3 bytes always leaves an address
\* region of at least 1 byte, whatever its content.
C5_XrpAddressNonEmpty ==
  (HasPayload /\ PrefixByte = 5 /\ Len(BodyBytes) >= 3) =>
    (SplitReturned /\ Len(SplitValue.addressBytes) >= 1)

\* A 36-byte XRP body made only of registered pairs has been split: 17 ids
\* were taken and 2 bytes are left as the address.
C5_Witness ==
  /\ SplitReturned
  /\ PrefixByte = 5
  /\ Len(BodyBytes) = 36
  /\ \A i \in 0..17 : PairAt(2 * i) \in DOMAIN GASZIP_CHAINS
  /\ Len(SplitValue.chainIds) = 17
  /\ Len(SplitValue.addressBytes) = 2

\* C6: under prefix 0x03 a body of length 32 + 2k takes the deterministic
\* path: the address is body[0..31], the chain ids are all k remaining
\* big-endian pairs in order, registered or not, and solanaLike is true.
C6_SolanaFastPath ==
  (HasPayload /\ PrefixByte = 3 /\ Len(BodyBytes) >= 32 /\ (Len(BodyBytes) - 32) % 2 = 0) =>
    LET k == (Len(BodyBytes) - 32) \div 2
    IN  /\ SplitReturned
        /\ SplitValue.addressBytes = SubSeq(BodyBytes, 1, 32)
        /\ Len(SplitValue.chainIds) = k
        /\ \A i \in 0..(k - 1) : SplitValue.chainIds[i + 1] = PairAt(32 + 2 * i)
        /\ ~Res.threw
        /\ Res.value.type = "BASE58"
        /\ Res.value.destination.solanaLike = Some(TRUE)
        /\ Res.value.destination.base58Hex = Some(bytesToHex(SubSeq(BodyBytes, 1, 32)))
        /\ Len(Res.value.chainIds) = k
        /\ \A i \in 0..(k - 1) : Res.value.chainIds[i + 1].id = PairAt(32 + 2 * i)

\* A 34-byte BASE58 body ending in the registered id 0x0036, whose bytes
\* before it also read as registered ids, has been decoded to one chain id.
C6_Witness ==
  /\ SplitReturned
  /\ PrefixByte = 3
  /\ Len(BodyBytes) = 34
  /\ PairAt(30) \in DOMAIN GASZIP_CHAINS
  /\ ~Res.threw
  /\ Len(Res.value.chainIds) = 1
  /\ Res.value.chainIds[1].id = 54
  /\ Len(SplitValue.addressBytes) = 32
  /\ Res.value.destination.solanaLike = Some(TRUE)

\* The heuristic path of C7: prefix 0x05, or 0x03 off the fast path.
OnHeuristicPath ==
  /\ HasPayload
  /\ \/ PrefixByte = 5
     \/ PrefixByte = 3 /\ ~(Len(BodyBytes) >= 32 /\ (Len(BodyBytes) - 32) % 2 = 0)

C8_EmptyCalldata ==
  (pc = "decoded" /\ input = <<"0", "x">>) =>
    /\ Res.threw
    /\ Res.error = EmptyCalldataError
    /\ data # None /\ ~data[1].threw /\ data[1].value = <<>>
    /\ split = None

\* "0x" has been decoded and rejected as empty calldata.
C8_Witness ==
  /\ pc = "decoded"
  /\ input = <<"0", "x">>
  /\ Res.threw
  /\ Res.error = EmptyCalldataError

\* Valid input of the decode operation: ^0x([0-9a-fA-F]{2})*$.
ValidHex(s) ==
  /\ startsWith0x(s)
  /\ Len(s) % 2 = 0
  /\ \A i \in 3..Len(s) : IsHexDigit(s[i])

\* A non-hex character among the digits that follow the optional 0x.
HasNonHexDigit(s) ==
  \E i \in (IF startsWith0x(s) THEN 3 ELSE 1)..Len(s) : ~IsHexDigit(s[i])

\* C9: decode fails with the invalid-hex-encoding error on every string that
\* is not 0x-prefixed even-length hex, and hexToBytes fails whenever the
\* digits after the optional 0x have odd length or hold a non-hex character.
C9_InvalidHexRejected ==
  /\ (pc = "decoded" /\ ~ValidHex(input)) =>
       (Res.threw /\ Res.error \in InvalidHexErrors)
  /\ (pc = "converted" /\ (Len(input) % 2 = 1 \/ HasNonHexDigit(input))) =>
       bytes[1].threw

\* C10: the result's chainIds has the length and order of the splitter's
\* list, each entry keeps its id, and an entry has name and nativeId, those
\* of the registry, exactly when its id is a key of the registry.
C10_AnnotationPreservesIds ==
  (pc = "decoded" /\ ~Res.threw) =>
    /\ SplitReturned
    /\ Len(Res.value.chainIds) = Len(SplitValue.chainIds)
    /\ \A i \in 1..Len(SplitValue.chainIds) :
         LET e == Res.value.chainIds[i]
             id == SplitValue.chainIds[i]
         IN  /\ e.id = id
             /\ id \in DOMAIN GASZIP_CHAINS =>
                  (e.name = Some(GASZIP_CHAINS[id].name) /\ e.nativeId = Some(GASZIP_CHAINS[id].nativeId))
             /\ id \notin DOMAIN GASZIP_CHAINS => (e.name = None /\ e.nativeId = None)

\* A result holds an unregistered id followed by Base Mainnet's id.
C10_Witness ==
  /\ pc = "decoded"
  /\ ~Res.threw
  /\ Len(Res.value.chainIds) = 2
  /\ Res.value.chainIds[1].id \notin DOMAIN GASZIP_CHAINS
  /\ Res.value.chainIds[1].name = None
  /\ Res.value.chainIds[2].id = 54
  /\ Res.value.chainIds[2].name = Some("Base Mainnet")
  /\ Res.value.chainIds[2].nativeId = Some("8453")

LowercaseHexChars == {"0", "1", "2", "3", "4", "5", "6", "7", "8", "9", "a", "b", "c", "d", "e", "f"}

\* C11: under prefix 0x02 a body of 20 address bytes A and an even tail
\* decodes to a destination.evm that is 0x followed by 40 lowercase hex
\* digits, and converting that string back with hexToBytes gives exactly A.
C11_EvmRoundTrip ==
  (HasPayload /\ PrefixByte = 2 /\ Len(BodyBytes) >= 20 /\ (Len(BodyBytes) - 20) % 2 = 0) =>
    /\ ~Res.threw
    /\ Res.value.destination.evm # None
    /\ LET h == Res.value.destination.evm[1]
       IN  /\ Len(h) = 42
           /\ h[1] = "0" /\ h[2] = "x"
           /\ \A i \in 3..42 : h[i] \in LowercaseHexChars
           /\ ~hexToBytes(h).threw
           /\ hexToBytes(h).value = SubSeq(BodyBytes, 1, 20)

\* An EVM payload whose address holds the bytes 0xab, 0x00 and 0x36 and
\* which carries one chain id has been decoded.
C11_Witness ==
  /\ HasPayload
  /\ PrefixByte = 2
  /\ Len(BodyBytes) = 22
  /\ {171, 0, 54} \subseteq {BodyBytes[i] : i \in 1..20}
  /\ ~Res.threw
  /\ Res.value.destination.evm # None

\* C12: the leftover field of every returned result is absent, whatever the
\* prefix: neither the splitter nor decodeGasZipCalldata ever fills it.
C12_LeftoverAlwaysAbsent ==
  (pc = "decoded" /\ ~Res.threw) =>
    /\ Res.value.leftoversHex = None
    /\ split # None /\ ~split[1].threw /\ split[1].value.leftovers = None

\* An EVM payload with two chain ids after the address has been decoded and
\* its result has no leftover.
C12_Witness ==
  /\ HasPayload
  /\ PrefixByte = 2
  /\ Len(BodyBytes) = 24
  /\ ~Res.threw
  /\ Res.value.leftoversHex = None

\* The backward scan ran: no fixed length, and not the 0x03 fast path.
HeuristicRan ==
  /\ SplitReturned
  /\ PrefixByte \notin {1, 2, 4, 6}
  /\ ~(PrefixByte = 3 /\ Len(BodyBytes) >= 32 /\ (Len(BodyBytes) - 32) % 2 = 0)

EncoderLengthErrors ==
  {"EVM address must be 20 bytes", "MOVE/FUEL address must be 32 bytes", "Initia address expected 20 bytes"}

\* C15: whenever the splitter returns under prefix 0x02, 0x04 or 0x06 the
\* address has exactly 20, 32 or 20 bytes, so the length errors of the
\* encoder stage never fire and every error of a decode under these prefixes
\* is one the splitter threw.
C15_EncoderLengthChecksUnreachable ==
  /\ (SplitReturned /\ PrefixByte \in {2, 4, 6}) =>
       Len(SplitValue.addressBytes) = DeclaredLength(PrefixByte)
  /\ (pc = "decoded" /\ Res.threw) => Res.error \notin EncoderLengthErrors
  /\ (HasPayload /\ PrefixByte \in {2, 4, 6} /\ Res.threw) =>
       (split # None /\ split[1].threw /\ split[1].error = Res.error)

\* An Initia payload of 20 address bytes and one chain id has been decoded.
C15_Witness ==
  /\ SplitReturned
  /\ PrefixByte = 6
  /\ Len(BodyBytes) = 22
  /\ Len(SplitValue.addressBytes) = 20
  /\ ~Res.threw
  /\ Res.value.type = "INITIA"

\* The result's destination shows no human-readable address: each text
\* field is absent or the empty string.
HumanReadableOmitted(d) ==
  /\ d.base58 \in {None, Some(EmptyText)}
  /\ d.xrp \in {None, Some(EmptyText)}
  /\ d.initia \in {None, Some(EmptyText)}

\* The hex fields of a destination.
HexFields(d) == {d.evm, d.move, d.base58Hex, d.initiaHex}

\* The type decodeGasZipCalldata gives each encoder-backed prefix.
EncoderType(p) == CASE p = 3 -> "BASE58" [] p = 5 -> "XRP" [] p = 6 -> "INITIA"

\* The encoder library threw during this decode call.
EncoderFailed == pc = "decoded" /\ enc = Some(FALSE)

\* What C16 says of every failed encoding but the hex form.
EncoderFailureAbsorbed ==
  /\ ~Res.threw
  /\ SplitReturned
  /\ Res.value.type = EncoderType(PrefixByte)
  /\ Len(Res.value.chainIds) = Len(SplitValue.chainIds)
  /\ \A i \in 1..Len(SplitValue.chainIds) : Res.value.chainIds[i].id = SplitValue.chainIds[i]
  /\ HumanReadableOmitted(Res.value.destination)

\* C16 as stated: when the base58, Ripple-base58 or bech32 encoding fails the
\* decode still returns a complete result of the right type and chain ids,
\* which keeps the hex form of the address and omits the readable string.
C16_Original ==
  EncoderFailed =>
    /\ EncoderFailureAbsorbed
    /\ Some(bytesToHex(SplitValue.addressBytes)) \in HexFields(Res.value.destination)

\* C16 (amended): when the encoding fails the decode still returns a
\* complete result of the right type and chain ids and without a readable
\* string; it keeps the hex form of the address under 0x03 (base58Hex) and
\* 0x06 (initiaHex), while an XRP result (0x05) has no hex form at all.
C16_EncoderFailureAbsorbed ==
  EncoderFailed =>
    /\ EncoderFailureAbsorbed
    /\ PrefixByte = 3 => Res.value.destination.base58Hex = Some(bytesToHex(SplitValue.addressBytes))
    /\ PrefixByte = 6 => Res.value.destination.initiaHex = Some(bytesToHex(SplitValue.addressBytes))
    /\ PrefixByte = 5 => HexFields(Res.value.destination) = {None}

\* The bech32 conversion of an Initia address failed and the result, with
\* its chain id, has been returned with initiaHex only.
C16_Witness ==
  /\ EncoderFailed
  /\ PrefixByte = 6
  /\ ~Res.threw
  /\ Len(Res.value.chainIds) = 1
  /\ Res.value.destination.initia = None
  /\ Res.value.destination.initiaHex # None

\* C17: whenever the splitter returns, addressBytes is a prefix of body,
\* len(addressBytes) + 2 * len(chainIds) = len(body), and addressBytes
\* followed by the big-endian two-byte encodings of the chain ids is body.
C17_ByteConservation ==
  SplitReturned =>
    LET a == Len(SplitValue.addressBytes)
        ids == SplitValue.chainIds
    IN  /\ a + 2 * Len(ids) = Len(BodyBytes)
        /\ SplitValue.addressBytes = SubSeq(BodyBytes, 1, a)
        /\ \A j \in 1..Len(ids) :
             /\ ids[j] \in 0..65535
             /\ BodyBytes[a + 2 * j - 1] = ids[j] \div 256
             /\ BodyBytes[a + 2 * j] = ids[j] % 256

\* The backward scan has split an XRP body into an address and two
\* different chain ids.
C17_Witness ==
  /\ HeuristicRan
  /\ PrefixByte = 5
  /\ Len(SplitValue.chainIds) = 2
  /\ SplitValue.chainIds[1] # SplitValue.chainIds[2]
  /\ Len(SplitValue.addressBytes) >= 1

\* C18: under prefix 0x03 solanaLike is true exactly when the fast path was
\* taken, that is when the body has at least 32 bytes and even length; the
\* backward scan never leaves a 32-byte address.
C18_SolanaLikeIffFastPath ==
  (HasPayload /\ PrefixByte = 3 /\ ~Res.threw) =>
    /\ Res.value.destination.solanaLike \in {Some(TRUE), Some(FALSE)}
    /\ Res.value.destination.solanaLike = Some(TRUE) <=>
         (Len(BodyBytes) >= 32 /\ Len(BodyBytes) % 2 = 0)
    /\ HeuristicRan => Len(SplitValue.addressBytes) # 32

\* The backward scan took one id from a 35-byte BASE58 body and left 33
\* address bytes: solanaLike is false.
C18_Witness ==
  /\ HeuristicRan
  /\ PrefixByte = 3
  /\ Len(BodyBytes) = 35
  /\ Len(SplitValue.chainIds) = 1
  /\ Len(SplitValue.addressBytes) = 33
  /\ ~Res.threw
  /\ Res.value.destination.solanaLike = Some(FALSE)

(***************************************************************************)
(* Properties of the fetch loop.                                           *)
(***************************************************************************)
\* The input string the loop works on for a received transaction.
ReceivedInput(i) ==
  IF received[i].input \in {None, Some(<<>>)} THEN <<"0", "x">> ELSE received[i].input[1]

\* The rows whose decode_type is in S, and the rows of skipped transactions.
RowsOfType(S) == {i \in 1..Len(rows) : rows[i].columns.decode_type \in S}
SkippedRows == {i \in 1..Len(rows) : rows[i].input = <<"0", "x">>}
DecodeTypes == {"SELF", "EVM", "BASE58", "MOVE", "XRP", "INITIA", "UNKNOWN"}

\* C13: a decode failure never aborts the run: no error leaves the loop, the
\* row of a failing transaction has decode_type DECODE_ERROR and the error
\* text in decode_error, every transaction handled after it is decoded into
\* its own row, and without a limit there is exactly one row per received
\* transaction, in arrival order.
C13_DecodeErrorsNeverAbort ==
  /\ fpc # "fatal"
  /\ Len(rows) <= Len(received)
  /\ \A i \in 1..Len(rows) :
       /\ rows[i].input = ReceivedInput(i)
       /\ ReceivedInput(i) # <<"0", "x">> =>
            \A d \in {decodeGasZipCalldata(ReceivedInput(i), TRUE)} :
              /\ d.threw => /\ rows[i].columns.decode_type = "DECODE_ERROR"
                            /\ rows[i].columns.decode_error = d.error
              /\ ~d.threw => /\ rows[i].columns.decode_type = d.value.type
                             /\ rows[i].columns.decode_error = ""
                             /\ rows[i].columns.chain_ids # None
  /\ limit = 0 => Len(rows) + Len(page) = Len(received)
  /\ (limit = 0 /\ fpc = "done") => Len(rows) = Len(received)

\* A run without limit has ended after three transactions: the first failed
\* to decode, the two after it were decoded as SELF and XRP.
C13_Witness ==
  /\ fpc = "done"
  /\ limit = 0
  /\ Len(rows) = 3
  /\ rows[1].columns.decode_type = "DECODE_ERROR"
  /\ rows[1].columns.decode_error = AddressLengthError
  /\ rows[2].columns.decode_type = "SELF"
  /\ rows[3].columns.decode_type = "XRP"

\* C19: after every handled transaction decodedOk + decodedErr + skipped =
\* total, where skipped counts the transactions whose input is empty or
\* "0x": their row is written with every decode column empty and neither
\* counter moves.  decodedOk and decodedErr count the decoded and the
\* DECODE_ERROR rows, and under a positive limit n at most n rows are ever
\* written.  (When the limit stops the run, total has also counted the
\* transaction that was not handled; the log reports total - 1.)
C19_CountersAccountForEveryRow ==
  /\ decodedOk = Cardinality(RowsOfType(DecodeTypes))
  /\ decodedErr = Cardinality(RowsOfType({"DECODE_ERROR"}))
  /\ \A i \in 1..Len(rows) :
       rows[i].input = <<"0", "x">> <=> rows[i].columns = EmptyColumns
  /\ fpc \in {"recv", "txs", "done"} =>
       /\ decodedOk + decodedErr + Cardinality(SkippedRows) = total
       /\ Len(rows) = total
  /\ fpc = "stopped" =>
       /\ decodedOk + decodedErr + Cardinality(SkippedRows) = total - 1
       /\ Len(rows) = total - 1
       /\ Len(rows) = limit
       /\ log # None /\ log[1].transactions = Len(rows)
  /\ limit > 0 => Len(rows) <= limit

\* A run with limit 2 was stopped by its third transaction: two rows are
\* written, one for a "0x" input and one counted by a counter.
C19_Witness ==
  /\ fpc = "stopped"
  /\ limit = 2
  /\ total = 3
  /\ Len(rows) = 2
  /\ Cardinality(SkippedRows) = 1
  /\ decodedOk + decodedErr = 1
====
